---- MODULE Spec2Model ----
(***************************************************************************)
(* Cell lists: fixed-radius nearest neighbour search.                      *)
(* A model of cell_lists/core.py (add_to_cells, neighboring_cells,         *)
(* find_points_in_cell, iter_nearest_neighbors, partition_cells) and of    *)
(* the threaded consumer of benchmarks/benchmark.py.                       *)
(*                                                                         *)
(* Arrays are functions over 0..len-1, as in the source.  Coordinates and  *)
(* the cell size are integers counted in one common unit, so that the      *)
(* quotient points[i, j] / cell_size is exact before it is truncated.      *)
(***************************************************************************)
EXTENDS Integers, Sequences, FiniteSets, TLC

VARIABLES
    points,               \* the N x D array of coordinates
    cell_size,            \* the cell size handed to add_to_cells
    distance,             \* the distance handed to neighboring_cells
    n,                    \* the number of parts handed to partition_cells
    points_indices,       \* add_to_cells: indices of the points, grouped by cell
    cells_count,          \* add_to_cells: number of points per cell
    cells_offset,         \* add_to_cells: start of each cell in points_indices
    grid_shape,           \* add_to_cells: shape of the grid, ghost cells included
    neigh_cells,          \* neighboring_cells: flattened offsets
    pairs,                \* the pairs yielded by iter_nearest_neighbors, in order
    oob,                  \* TRUE once an array was read outside its bounds
    interactions_cumsum,  \* partition_cells: the written entries of the array
    part_size,            \* partition_cells: size
    splits,               \* partition_cells: the boundaries
    part_index,           \* partition_cells: loop variable of the scan
    scan_i,               \* partition_cells: loop variable i of the scan
    threads,              \* benchmark: per thread, its chunk, position and output
    outcome,              \* how the last call ended
    pc                    \* position of the caller

vars == <<points, cell_size, distance, n, points_indices, cells_count,
          cells_offset, grid_shape, neigh_cells, pairs, oob,
          interactions_cumsum, part_size, splits, part_index, scan_i,
          threads, outcome, pc>>

----------------------------------------------------------------------------
(* Bounds of the model. *)

MaxPoints == 3        \* points of the sequential pipeline
MaxRadiusPoints == 2  \* points where the distance varies
MaxDistance == 2      \* distances handed to neighboring_cells
MaxThreadPoints == 3  \* points of the threaded pipeline
MaxCells == 4         \* cells of a cells_count handed to partition_cells directly
MaxCount == 3         \* points per cell there
MaxParts == 3         \* parts there
MaxOverrun == 2       \* entries past the end of an array that can still be read

Dimensions == {1, 2}
CellSizes == {1, 2}
Coords == {0 - 1, 0, 1}
ThreadCoords == {0, 1}
ThreadCounts == {1, 2, 3}

----------------------------------------------------------------------------
(* Arrays. *)

Length(a) == Cardinality(DOMAIN a)

EmptyArray == [k \in {} |-> 0]

Range(s) == {s[k] : k \in DOMAIN s}

RECURSIVE SumUpTo(_, _)
SumUpTo(a, k) == IF k < 0 THEN 0 ELSE a[k] + SumUpTo(a, k - 1)

Sum(a) == SumUpTo(a, Length(a) - 1)

\* np.cumsum
Cumsum(a) == [k \in DOMAIN a |-> SumUpTo(a, k)]

RECURSIVE ProdUpTo(_, _)
ProdUpTo(a, k) == IF k < 0 THEN 1 ELSE a[k] * ProdUpTo(a, k - 1)

\* np.prod
Prod(a) == ProdUpTo(a, Length(a) - 1)

\* a[start:end] of numpy for 0 <= start, as a sequence
Slice(a, start, end) ==
    LET hi == IF end > Length(a) THEN Length(a) ELSE end
        lo == IF start > hi THEN hi ELSE start
    IN  [k \in 1..(hi - lo) |-> a[lo + k - 1]]

----------------------------------------------------------------------------
(* add_to_cells *)

\* np.int64(x / cell_size): the conversion truncates toward zero
CellOf(x, c) == IF x >= 0 THEN x \div c ELSE 0 - ((0 - x) \div c)

\* the loop of lines 110-116, from row i on
RECURSIVE MinMaxLoop(_, _, _, _, _)
MinMaxLoop(pts, c, i, x_min, x_max) ==
    IF i >= Length(pts) THEN <<x_min, x_max>>
    ELSE MinMaxLoop(pts, c, i + 1,
            [j \in DOMAIN x_min |->
                IF CellOf(pts[i][j], c) < x_min[j] THEN CellOf(pts[i][j], c) ELSE x_min[j]],
            [j \in DOMAIN x_max |->
                IF CellOf(pts[i][j], c) > x_max[j] THEN CellOf(pts[i][j], c) ELSE x_max[j]])

XMinMax(pts, c) ==
    LET first == [j \in DOMAIN pts[0] |-> CellOf(pts[0][j], c)]
    IN  MinMaxLoop(pts, c, 1, first, first)

\* grid_shape = (x_max - x_min) + 1 + 2
GridShape(x_min, x_max) == [j \in DOMAIN x_min |-> (x_max[j] - x_min[j]) + 1 + 2]

\* the inner loop of lines 129-132: the cell index of one point, from dimension j on
RECURSIVE CellIndexLoop(_, _, _, _, _, _)
CellIndexLoop(p, c, x_min, shape, j, l) ==
    IF j >= Length(p) THEN l
    ELSE CellIndexLoop(p, c, x_min, shape, j + 1,
                       l * shape[j] + (CellOf(p[j], c) - x_min[j] + 1))

CellIndex(p, c, x_min, shape) ==
    CellIndexLoop(p, c, x_min, shape, 1, CellOf(p[0], c) - x_min[0] + 1)

Cells(pts, c) ==
    LET mm == XMinMax(pts, c)
        shape == GridShape(mm[1], mm[2])
    IN  [i \in DOMAIN pts |-> CellIndex(pts[i], c, mm[1], shape)]

\* lines 136-138
RECURSIVE CountLoop(_, _, _)
CountLoop(cells, i, count) ==
    IF i >= Length(cells) THEN count
    ELSE CountLoop(cells, i + 1, [count EXCEPT ![cells[i]] = @ + 1])

\* points_indices[offset] = i
PlaceSlotAtOffset(offset) == offset

\* the slot a point is written to: points_indices[offset - 1] = i
PlaceSlot(offset) == offset - 1

\* lines 144-149; r holds points_indices and cells_offset
RECURSIVE PlaceLoop(_, _, _)
PlaceLoop(cells, i, r) ==
    IF i >= Length(cells) THEN r
    ELSE LET l == cells[i]
             offset == r.cells_offset[l]
             slot == PlaceSlot(offset)
         IN  PlaceLoop(cells, i + 1,
                [points_indices |->
                    IF slot \in DOMAIN r.points_indices
                    THEN [r.points_indices EXCEPT ![slot] = i]
                    ELSE r.points_indices,
                 cells_offset |-> [r.cells_offset EXCEPT ![l] = @ - 1]])

\* add_to_cells for at least one row; g is the content of the fresh
\* np.empty array points_indices
AddToCellsResult(pts, c, g) ==
    LET mm == XMinMax(pts, c)
        shape == GridShape(mm[1], mm[2])
        grid_size == Prod(shape)
        cells == Cells(pts, c)
        count == CountLoop(cells, 0, [l \in 0..(grid_size - 1) |-> 0])
        placed == PlaceLoop(cells, 0,
                     [points_indices |-> [i \in DOMAIN pts |-> g],
                      cells_offset |-> Cumsum(count)])
    IN  [points_indices |-> placed.points_indices,
         cells_count |-> count,
         cells_offset |-> placed.cells_offset,
         grid_shape |-> shape]

----------------------------------------------------------------------------
(* neighboring_cells *)

RECURSIVE Power(_, _)
Power(b, e) == IF e <= 0 THEN 1 ELSE b * Power(b, e - 1)

\* element k (from 0) of itertools.product(*dims * (base,)), base = range(-d, d + 1):
\* the tuples in lexicographic order, the last position changing fastest
ProductAt(k, dims, d) ==
    [j \in 0..(dims - 1) |-> ((k \div Power(2 * d + 1, dims - 1 - j)) % (2 * d + 1)) - d]

\* prod[len(prod) // 2:], the middle element kept
HalfStartAtMiddle(len) == len \div 2

\* first index kept by prod[len(prod) // 2 + 1:]
HalfStart(len) == len \div 2 + 1

\* _neighboring_cells, one row: l = prod[k, 0]; l = l * n + i over the other positions
RECURSIVE FlattenLoop(_, _, _, _)
FlattenLoop(t, shape, j, l) ==
    IF j >= Length(t) THEN l
    ELSE FlattenLoop(t, shape, j + 1, l * shape[j] + t[j])

\* l = l + i, the stride forgotten
FlattenNoStride(t, shape) == FlattenLoop(t, [j \in DOMAIN shape |-> 1], 1, t[0])

Flatten(t, shape) == FlattenLoop(t, shape, 1, t[0])

\* the rows of prod_ (those kept of the product), in order
ProdKept(dims, d) ==
    LET len == Power(2 * d + 1, dims)
        first == HalfStart(len)
    IN  [k \in 1..(len - first) |-> ProductAt(first + k - 1, dims, d)]

\* neighboring_cells(grid_shape, distance), for distance >= 1
NeighboringCellsResult(shape, d) ==
    LET kept == ProdKept(Length(shape), d)
    IN  [k \in DOMAIN kept |-> Flatten(kept[k], shape)]

----------------------------------------------------------------------------
(* find_points_in_cell and iter_nearest_neighbors *)

InBounds(a, k) == k \in DOMAIN a

\* find_points_in_cell.  A cell_index outside the arrays reads start and count
\* from memory that is not theirs: the slice is then any slice g = <<a, b>> of
\* points_indices (one g stands for all such reads of a run).
FindPointsInCell(cell_index, pi, count, offset, g) ==
    IF InBounds(count, cell_index)
    THEN Slice(pi, offset[cell_index], offset[cell_index] + count[cell_index])
    ELSE Slice(pi, g[1], g[2])

\* lines 240-242, from position k of points_cur on
RECURSIVE IntraPairs(_, _)
IntraPairs(cur, k) ==
    IF k >= Len(cur) THEN <<>>
    ELSE [m \in 1..(Len(cur) - k) |-> <<cur[k], cur[k + m]>>] \o IntraPairs(cur, k + 1)

\* lines 248-250, from position k of points_cur on
RECURSIVE CrossPairs(_, _, _)
CrossPairs(cur, neigh, k) ==
    IF k > Len(cur) THEN <<>>
    ELSE [m \in 1..Len(neigh) |-> <<cur[k], neigh[m]>>] \o CrossPairs(cur, neigh, k + 1)

\* lines 244-250, from neighbour number k on
RECURSIVE NeighLoop(_, _, _, _, _, _, _)
NeighLoop(cur_cell, neigh, k, pi, count, offset, g) ==
    IF k > Len(neigh) THEN <<>>
    ELSE CrossPairs(FindPointsInCell(cur_cell, pi, count, offset, g),
                    FindPointsInCell(cur_cell + neigh[k], pi, count, offset, g), 1)
         \o NeighLoop(cur_cell, neigh, k + 1, pi, count, offset, g)

\* one round of the loop over cell_indices: what the generator yields for cur_cell
CellPairs(cur_cell, neigh, pi, count, offset, g) ==
    IF count[cur_cell] = 0 THEN <<>>
    ELSE IntraPairs(FindPointsInCell(cur_cell, pi, count, offset, g), 1)
         \o NeighLoop(cur_cell, neigh, 1, pi, count, offset, g)

\* the generator run to its end over cell_indices, from position k on
RECURSIVE IterNearestNeighborsFrom(_, _, _, _, _, _, _)
IterNearestNeighborsFrom(cell_indices, k, neigh, pi, count, offset, g) ==
    IF k > Len(cell_indices) THEN <<>>
    ELSE CellPairs(cell_indices[k], neigh, pi, count, offset, g)
         \o IterNearestNeighborsFrom(cell_indices, k + 1, neigh, pi, count, offset, g)

\* whether the run reads a neighbouring cell outside the arrays
ReadsOutOfBounds(cell_indices, neigh, count) ==
    \E k \in DOMAIN cell_indices, m \in DOMAIN neigh :
        /\ count[cell_indices[k]] # 0
        /\ ~InBounds(count, cell_indices[k] + neigh[m])

\* handed to the enumeration where no read is outside the arrays
NoGarbage == <<0, 0>>

\* np.arange(len)
Arange(len) == [k \in 0..(len - 1) |-> k]

\* np.arange(len(cells_count)), in the order a loop goes through it
AllCells(count) == Slice(Arange(Length(count)), 0, Length(count))

\* the slices of points_indices a read outside the arrays can come back with
GarbageSlices(pi) == {g \in (0..Length(pi)) \X (0..Length(pi)) : g[1] <= g[2]}

----------------------------------------------------------------------------
(* The sequential pipeline of benchmark_find_neighbors, num_threads == 1. *)

Idle ==
    /\ interactions_cumsum = EmptyArray
    /\ part_size = 0
    /\ splits = EmptyArray
    /\ part_index = 0
    /\ scan_i = 0
    /\ threads = EmptyArray

NoLayout ==
    /\ points_indices = EmptyArray
    /\ cells_count = EmptyArray
    /\ cells_offset = EmptyArray
    /\ grid_shape = EmptyArray
    /\ neigh_cells = <<>>
    /\ pairs = <<>>
    /\ oob = FALSE

PointSets(maxn, coords) ==
    UNION {[0..(size - 1) -> [0..(dims - 1) -> coords]] :
              size \in 1..maxn, dims \in Dimensions}

Init ==
    /\ points \in PointSets(MaxPoints, Coords)
    /\ cell_size \in CellSizes
    /\ distance = 1
    /\ n = 1
    /\ NoLayout
    /\ Idle
    /\ outcome = "none"
    /\ pc = "start"

AddToCells ==
    /\ pc = "start"
    /\ cell_size > 0
    /\ Length(points) >= 1
    /\ \E g \in {0 - 1, 0} :
          LET r == AddToCellsResult(points, cell_size, g)
          IN  /\ points_indices' = r.points_indices
              /\ cells_count' = r.cells_count
              /\ cells_offset' = r.cells_offset
              /\ grid_shape' = r.grid_shape
    /\ outcome' = "returned"
    /\ pc' = "grid"
    /\ UNCHANGED <<points, cell_size, distance, n, neigh_cells, pairs, oob,
                   interactions_cumsum, part_size, splits, part_index, scan_i,
                   threads>>

NeighboringCells ==
    /\ pc = "grid"
    /\ distance >= 1
    /\ neigh_cells' = NeighboringCellsResult(grid_shape, distance)
    /\ outcome' = "returned"
    /\ pc' = "neigh"
    /\ UNCHANGED <<points, cell_size, distance, n, points_indices, cells_count,
                   cells_offset, grid_shape, pairs, oob, interactions_cumsum,
                   part_size, splits, part_index, scan_i, threads>>

\* consume_find_neighbors over np.arange(len(cells_count)).  A read outside the
\* arrays comes back with some slice of points_indices ...
IterNearestNeighbors ==
    /\ pc = "neigh"
    /\ LET cell_indices == AllCells(cells_count)
           bad == ReadsOutOfBounds(cell_indices, neigh_cells, cells_count)
       IN  /\ oob' = bad
           /\ \E g \in (IF bad THEN GarbageSlices(points_indices) ELSE {NoGarbage}) :
                 pairs' = IterNearestNeighborsFrom(cell_indices, 1, neigh_cells,
                              points_indices, cells_count, cells_offset, g)
    /\ outcome' = "returned"
    /\ pc' = "done"
    /\ UNCHANGED <<points, cell_size, distance, n, points_indices, cells_count,
                   cells_offset, grid_shape, neigh_cells, interactions_cumsum,
                   part_size, splits, part_index, scan_i, threads>>

\* ... or ends the process.
IterNearestNeighborsCrash ==
    /\ pc = "neigh"
    /\ ReadsOutOfBounds(AllCells(cells_count), neigh_cells, cells_count)
    /\ oob' = TRUE
    /\ outcome' = "crashed"
    /\ pc' = "done"
    /\ UNCHANGED <<points, cell_size, distance, n, points_indices, cells_count,
                   cells_offset, grid_shape, neigh_cells, pairs, interactions_cumsum,
                   part_size, splits, part_index, scan_i, threads>>

Next == AddToCells \/ NeighboringCells \/ IterNearestNeighbors

Spec == Init /\ [][Next]_vars

\* The same pipeline with the distance chosen by the caller.
RadiusInit ==
    /\ points \in PointSets(MaxRadiusPoints, Coords)
    /\ cell_size \in CellSizes
    /\ distance \in 1..MaxDistance
    /\ n = 1
    /\ NoLayout
    /\ Idle
    /\ outcome = "none"
    /\ pc = "start"

RadiusNext ==
    AddToCells \/ NeighboringCells \/ IterNearestNeighbors \/ IterNearestNeighborsCrash

RadiusSpec == RadiusInit /\ [][RadiusNext]_vars

----------------------------------------------------------------------------
(* partition_cells *)

\* (count - 1) ** 2
IntraCost(count) == (count - 1) * (count - 1)

\* lines 281-282, from neighbour number k on
RECURSIVE NeighCost(_, _, _, _)
NeighCost(count, neigh, i, k) ==
    IF k > Len(neigh) THEN 0
    ELSE count[i] * count[i + neigh[k]] + NeighCost(count, neigh, i, k + 1)

\* lines 277-283, from cell i on.  interactions_cumsum comes from np.empty_like
\* and is written at the cells that hold points only: cumsum holds the written
\* entries.
RECURSIVE InteractionsLoop(_, _, _, _, _)
InteractionsLoop(count, neigh, i, total, cumsum) ==
    IF i >= Length(count) THEN [total |-> total, cumsum |-> cumsum]
    ELSE IF count[i] = 0 THEN InteractionsLoop(count, neigh, i + 1, total, cumsum)
    ELSE LET t == total + IntraCost(count[i]) + NeighCost(count, neigh, i, 1)
         IN  InteractionsLoop(count, neigh, i + 1, t, (i :> t) @@ cumsum)

\* np.int64(np.ceil(interactions_total / n))
PartSize(total, parts) == (total + parts - 1) \div parts

\* What a read of an entry that was never written, or of memory past the end,
\* can compare as against the threshold t: below it, or not.
UninitValues(t) == {t - 1, t}

\* interactions_cumsum[i] as the scan reads it
ReadCumsum(i, t) ==
    IF i \in DOMAIN interactions_cumsum THEN {interactions_cumsum[i]}
    ELSE UninitValues(t)

\* lines 271-292: the assertion holds, the costs are summed, the scan starts
PartitionCells ==
    /\ pc = "neigh"
    /\ n > 0
    /\ LET r == InteractionsLoop(cells_count, neigh_cells, 0, 0, EmptyArray)
       IN  /\ interactions_cumsum' = r.cumsum
           /\ part_size' = PartSize(r.total, n)
    /\ splits' = (n :> Length(cells_count)) @@ (0 :> 0)
    /\ part_index' = 1
    /\ scan_i' = 0
    /\ pc' = "scan"
    /\ UNCHANGED <<points, cell_size, distance, n, points_indices, cells_count,
                   cells_offset, grid_shape, neigh_cells, pairs, oob, threads,
                   outcome>>

\* lines 293-297: one round of the scan.  Past the end of the array the read
\* comes back with whatever the memory holds ...
PartitionScan ==
    /\ pc = "scan"
    /\ part_index < n
    /\ scan_i < Length(cells_count) + MaxOverrun
    /\ \E v \in ReadCumsum(scan_i, part_index * part_size) :
          IF v >= part_index * part_size
          THEN /\ splits' = (part_index :> scan_i) @@ splits
               /\ part_index' = part_index + 1
          ELSE UNCHANGED <<splits, part_index>>
    /\ scan_i' = scan_i + 1
    /\ oob' = (oob \/ scan_i >= Length(cells_count))
    /\ UNCHANGED <<points, cell_size, distance, n, points_indices, cells_count,
                   cells_offset, grid_shape, neigh_cells, pairs,
                   interactions_cumsum, part_size, threads, outcome, pc>>

\* ... or ends the process.
PartitionScanCrash ==
    /\ pc = "scan"
    /\ part_index < n
    /\ scan_i >= Length(cells_count)
    /\ oob' = TRUE
    /\ outcome' = "crashed"
    /\ pc' = "done"
    /\ UNCHANGED <<points, cell_size, distance, n, points_indices, cells_count,
                   cells_offset, grid_shape, neigh_cells, pairs,
                   interactions_cumsum, part_size, splits, part_index, scan_i,
                   threads>>

\* line 299
PartitionReturn ==
    /\ pc = "scan"
    /\ part_index >= n
    /\ outcome' = "returned"
    /\ pc' = "split"
    /\ UNCHANGED <<points, cell_size, distance, n, points_indices, cells_count,
                   cells_offset, grid_shape, neigh_cells, pairs, oob,
                   interactions_cumsum, part_size, splits, part_index, scan_i,
                   threads>>

\* partition_cells called on its own: any counts, and offsets that stay inside
\* cells_count at the cells that hold points.
Arrays(maxlen, values) == UNION {[0..(len - 1) -> values] : len \in 1..maxlen}

PartitionInit ==
    /\ cells_count \in Arrays(MaxCells, 0..MaxCount)
    /\ neigh_cells \in {<<>>, <<1>>}
    /\ ~ReadsOutOfBounds(AllCells(cells_count), neigh_cells, cells_count)
    /\ n \in 1..MaxParts
    /\ points = EmptyArray
    /\ cell_size = 1
    /\ distance = 1
    /\ points_indices = EmptyArray
    /\ cells_offset = EmptyArray
    /\ grid_shape = EmptyArray
    /\ pairs = <<>>
    /\ oob = FALSE
    /\ Idle
    /\ outcome = "none"
    /\ pc = "neigh"

PartitionNext ==
    PartitionCells \/ PartitionScan \/ PartitionScanCrash \/ PartitionReturn

PartitionSpec == PartitionInit /\ [][PartitionNext]_vars

----------------------------------------------------------------------------
(* consume_find_neighbors_multithread: one thread per chunk of the partition. *)

\* cell_indices[start:end + 1]
ChunkOneMore(k) == Slice(Arange(Length(cells_count)), splits[k], splits[k + 1] + 1)

\* cell_indices[start:end] with start, end the boundaries k and k + 1
Chunk(k) == Slice(Arange(Length(cells_count)), splits[k], splits[k + 1])

\* the positions from pos on of a chunk whose cell holds points
Occupied(chunk, pos) == {q \in pos..Len(chunk) : cells_count[chunk[q]] # 0}

Finished(t) == threads[t].pos > Len(threads[t].chunk)

\* lines 30-39: the chunks are cut and every thread is started
ThreadsStart ==
    /\ pc = "split"
    /\ threads' = [t \in 0..(n - 1) |-> [chunk |-> Chunk(t), pos |-> 1, out |-> <<>>]]
    /\ pc' = "running"
    /\ UNCHANGED <<points, cell_size, distance, n, points_indices, cells_count,
                   cells_offset, grid_shape, neigh_cells, pairs, oob,
                   interactions_cumsum, part_size, splits, part_index, scan_i,
                   outcome>>

\* thread t runs its generator up to and including the next cell that holds
\* points, or to the end of its chunk
ThreadStep(t) ==
    /\ pc = "running"
    /\ ~Finished(t)
    /\ LET th == threads[t]
           occ == Occupied(th.chunk, th.pos)
       IN  IF occ = {}
           THEN threads' = [threads EXCEPT ![t].pos = Len(th.chunk) + 1]
           ELSE LET q == CHOOSE q \in occ : \A r \in occ : q <= r
                IN  threads' = [threads EXCEPT
                        ![t].pos = q + 1,
                        ![t].out = @ \o CellPairs(th.chunk[q], neigh_cells, points_indices,
                                                  cells_count, cells_offset, NoGarbage)]
    /\ UNCHANGED <<points, cell_size, distance, n, points_indices, cells_count,
                   cells_offset, grid_shape, neigh_cells, pairs, oob,
                   interactions_cumsum, part_size, splits, part_index, scan_i,
                   outcome, pc>>

\* lines 40-41
ThreadsJoin ==
    /\ pc = "running"
    /\ \A t \in DOMAIN threads : Finished(t)
    /\ pc' = "joined"
    /\ UNCHANGED <<points, cell_size, distance, n, points_indices, cells_count,
                   cells_offset, grid_shape, neigh_cells, pairs, oob,
                   interactions_cumsum, part_size, splits, part_index, scan_i,
                   threads, outcome>>

ThreadInit ==
    /\ points \in PointSets(MaxThreadPoints, ThreadCoords)
    /\ cell_size \in CellSizes
    /\ distance = 1
    /\ n \in ThreadCounts
    /\ NoLayout
    /\ Idle
    /\ outcome = "none"
    /\ pc = "start"

ThreadNext ==
    \/ AddToCells
    \/ NeighboringCells
    \/ PartitionCells
    \/ PartitionScan
    \/ PartitionScanCrash
    \/ PartitionReturn
    \/ ThreadsStart
    \/ \E t \in DOMAIN threads : ThreadStep(t)
    \/ ThreadsJoin

ThreadSpec == ThreadInit /\ [][ThreadNext]_vars

----------------------------------------------------------------------------
(* Calls whose arguments break a precondition. *)

\* line 101: cell_size > 0 fails (points.ndim == 2 is fixed by the signature)
AddToCellsAssert ==
    /\ pc = "start"
    /\ ~(cell_size > 0)
    /\ outcome' = "AssertionError"
    /\ pc' = "done"
    /\ UNCHANGED <<points, cell_size, distance, n, points_indices, cells_count,
                   cells_offset, grid_shape, neigh_cells, pairs, oob,
                   interactions_cumsum, part_size, splits, part_index, scan_i,
                   threads>>

\* An array of no rows passes line 101; lines 107-108 then read points[0, :]
\* outside the array.  When both reads come back alike x_max - x_min is 0, every
\* loop over the rows is empty and the layout of an empty grid of 3 cells a side
\* is returned ...
AddToCellsNoRows ==
    /\ pc = "start"
    /\ cell_size > 0
    /\ Length(points) = 0
    /\ \E dims \in Dimensions :
          LET shape == GridShape([j \in 0..(dims - 1) |-> 0], [j \in 0..(dims - 1) |-> 0])
              count == [l \in 0..(Prod(shape) - 1) |-> 0]
          IN  /\ grid_shape' = shape
              /\ cells_count' = count
              /\ cells_offset' = Cumsum(count)
              /\ points_indices' = EmptyArray
    /\ oob' = TRUE
    /\ outcome' = "returned"
    /\ pc' = "grid"
    /\ UNCHANGED <<points, cell_size, distance, n, neigh_cells, pairs,
                   interactions_cumsum, part_size, splits, part_index, scan_i,
                   threads>>

\* ... and otherwise the process ends.
AddToCellsNoRowsCrash ==
    /\ pc = "start"
    /\ cell_size > 0
    /\ Length(points) = 0
    /\ oob' = TRUE
    /\ outcome' = "crashed"
    /\ pc' = "done"
    /\ UNCHANGED <<points, cell_size, distance, n, points_indices, cells_count,
                   cells_offset, grid_shape, neigh_cells, pairs,
                   interactions_cumsum, part_size, splits, part_index, scan_i,
                   threads>>

\* line 184: distance >= 1 fails
NeighboringCellsAssert ==
    /\ pc = "grid"
    /\ ~(distance >= 1)
    /\ outcome' = "AssertionError"
    /\ pc' = "done"
    /\ UNCHANGED <<points, cell_size, distance, n, points_indices, cells_count,
                   cells_offset, grid_shape, neigh_cells, pairs, oob,
                   interactions_cumsum, part_size, splits, part_index, scan_i,
                   threads>>

\* line 271: n > 0 fails
PartitionCellsAssert ==
    /\ pc = "neigh"
    /\ ~(n > 0)
    /\ outcome' = "AssertionError"
    /\ pc' = "done"
    /\ UNCHANGED <<points, cell_size, distance, n, points_indices, cells_count,
                   cells_offset, grid_shape, neigh_cells, pairs, oob,
                   interactions_cumsum, part_size, splits, part_index, scan_i,
                   threads>>

ErrorCellSizes == {0 - 1, 0, 1, 2}
ErrorDistances == {0 - 1, 0, 1}
ErrorParts == {0 - 1, 0, 1, 2}

ErrorInit ==
    /\ points \in PointSets(1, Coords) \cup {EmptyArray}
    /\ cell_size \in ErrorCellSizes
    /\ distance \in ErrorDistances
    /\ n \in ErrorParts
    /\ NoLayout
    /\ Idle
    /\ outcome = "none"
    /\ pc = "start"

ErrorNext ==
    \/ AddToCells
    \/ AddToCellsAssert
    \/ AddToCellsNoRows
    \/ AddToCellsNoRowsCrash
    \/ NeighboringCells
    \/ NeighboringCellsAssert
    \/ PartitionCells
    \/ PartitionCellsAssert

ErrorSpec == ErrorInit /\ [][ErrorNext]_vars

----------------------------------------------------------------------------
(* Properties of the layout and of the enumeration. *)

NumPoints == Length(points)

Abs(x) == IF x < 0 THEN 0 - x ELSE x

\* The cells of points i and j are equal or next to each other: they differ by at
\* most 1 in every dimension.
Adjacent(i, j) ==
    \A k \in DOMAIN points[i] :
        Abs(CellOf(points[i][k], cell_size) - CellOf(points[j][k], cell_size)) <= 1

Unordered(s) == {{s[k][1], s[k][2]} : k \in DOMAIN s}

\* C1: with distance 1, the pairs yielded over all the cells are exactly the
\* unordered pairs of distinct points whose cells are equal or at Chebyshev
\* distance at most 1, and no unordered pair is yielded twice.
PairsExactlyOnce ==
    (pc = "done" /\ distance = 1) =>
        /\ Unordered(pairs) =
              {{i, j} : <<i, j>> \in {q \in (DOMAIN points) \X (DOMAIN points) :
                                         q[1] # q[2] /\ Adjacent(q[1], q[2])}}
        /\ \A k \in DOMAIN pairs : pairs[k][1] # pairs[k][2]
        /\ Cardinality(Unordered(pairs)) = Len(pairs)

\* three points in three cells, two pairs of them adjacent and one not
PairsExactlyOnceWitness ==
    /\ pc = "done"
    /\ distance = 1
    /\ NumPoints = 3
    /\ Len(pairs) = 2
    /\ \E i, j \in DOMAIN points : i # j /\ ~Adjacent(i, j)
    /\ \E c \in DOMAIN cells_count : cells_count[c] = 1

\* C2: after add_to_cells the counts sum to N, points_indices is a permutation
\* of 0..N-1 and the slice of every cell holds exactly the points of that cell.
LayoutInvariant ==
    (pc \in {"grid", "neigh", "done"}) =>
        \E cells \in {Cells(points, cell_size)} :
            /\ Sum(cells_count) = NumPoints
            /\ DOMAIN points_indices = 0..(NumPoints - 1)
            /\ Range(points_indices) = 0..(NumPoints - 1)
            /\ \A c \in DOMAIN cells_count :
                  /\ cells_offset[c] >= 0
                  /\ cells_offset[c] + cells_count[c] <= NumPoints
                  /\ Range(FindPointsInCell(c, points_indices, cells_count,
                                            cells_offset, NoGarbage))
                        = {i \in DOMAIN points : cells[i] = c}

\* a cell of two points and a cell of one
LayoutInvariantWitness ==
    /\ pc = "grid"
    /\ NumPoints = 3
    /\ \E c, e \in DOMAIN cells_count : cells_count[c] = 2 /\ cells_count[e] = 1

\* the number of offsets C3 gives: ((2d+1)^D - 1)/2
HalfCount ==
    2 * Len(neigh_cells) = Power(2 * distance + 1, Length(grid_shape)) - 1

\* one representative of each +/- pair: the offsets are pairwise distinct, none
\* is 0 and none is the negative of another
HalfNeighborhood ==
    /\ \A k, m \in DOMAIN neigh_cells : k # m => neigh_cells[k] # neigh_cells[m]
    /\ \A k \in DOMAIN neigh_cells : neigh_cells[k] # 0
    /\ \A k, m \in DOMAIN neigh_cells : neigh_cells[k] # 0 - neigh_cells[m]

\* C3 as stated: for every grid shape of add_to_cells (every dimension at least
\* 3) and every distance >= 1 there are ((2d+1)^D - 1)/2 offsets, pairwise
\* distinct, none 0, and none the negative of another.
HalfNeighborhoodAnyDistance ==
    (pc \in {"neigh", "done"}) => (HalfCount /\ HalfNeighborhood)

\* C3 as amended: there are ((2d+1)^D - 1)/2 offsets for every grid shape and
\* distance, and they are pairwise distinct, none 0 and none the negative of
\* another whenever every dimension of the grid is at least 2 * distance + 1.
HalfNeighborhoodWideGrid ==
    (pc \in {"neigh", "done"}) =>
        /\ HalfCount
        /\ (\A j \in DOMAIN grid_shape : grid_shape[j] >= 2 * distance + 1)
              => HalfNeighborhood

HalfNeighborhoodWideGridWitness ==
    /\ pc = "neigh"
    /\ distance = 2
    /\ Length(grid_shape) = 2
    /\ \A j \in DOMAIN grid_shape : grid_shape[j] >= 2 * distance + 1
    /\ Len(neigh_cells) = 12

\* C6: for every distance >= 1 no neighbouring cell the enumeration reads is
\* outside the arrays.
NoReadOutOfBounds == (pc = "done") => ~oob

----------------------------------------------------------------------------
(* Properties of partition_cells. *)

NumCells == Length(cells_count)

\* C4: the boundaries returned are n + 1 entries, the first 0, the last
\* len(cells_count), and they never decrease.
BoundariesOrdered ==
    (pc = "split") =>
        /\ DOMAIN splits = 0..n
        /\ splits[0] = 0
        /\ splits[n] = NumCells
        /\ \A k \in 0..(n - 1) : splits[k] <= splits[k + 1]

\* C7: partition_cells returns for every n > 0 and every cells_count, its scan
\* never reading interactions_cumsum at an index >= len(cells_count).
ScanStaysInBounds == ~oob /\ outcome # "crashed"

\* the estimated cost of cell c with no neighbour offsets
CellCost(c) == IF cells_count[c] = 0 THEN 0 ELSE IntraCost(cells_count[c])

RECURSIVE RangeCost(_, _)
RangeCost(from, to) ==
    IF from >= to \/ from >= NumCells THEN 0 ELSE CellCost(from) + RangeCost(from + 1, to)

MaxCellCost ==
    IF NumCells = 0 THEN 0
    ELSE CHOOSE m \in {CellCost(c) : c \in DOMAIN cells_count} :
             \A c \in DOMAIN cells_count : CellCost(c) <= m

\* C8: with two parts and no neighbour offsets the estimated costs of
\* [0, b) and [b, len) differ by at most the estimated cost of one cell
\* (stated of the calls whose scan stays inside the array).
TwoPartsBalanced ==
    (pc = "split" /\ ~oob /\ n = 2 /\ neigh_cells = <<>>) =>
        Abs(RangeCost(0, splits[1]) - RangeCost(splits[1], NumCells)) <= MaxCellCost

\* cum(i): the summed cost of cells 0..i, empty cells carrying the running total
CarriedCumsum(i) ==
    LET written == {k \in DOMAIN interactions_cumsum : k <= i}
    IN  IF written = {} THEN 0
        ELSE interactions_cumsum[CHOOSE k \in written : \A m \in written : m <= k]

\* C10: boundary k is the smallest cell index i with cum(i) >= k * S, for
\* k = 1..n-1 (stated of the calls whose scan stays inside the array).
BoundaryIsFirstCrossing ==
    (pc = "split" /\ ~oob) =>
        \A k \in 1..(n - 1) :
            /\ splits[k] \in DOMAIN cells_count
            /\ CarriedCumsum(splits[k]) >= k * part_size
            /\ \A i \in 0..(splits[k] - 1) : CarriedCumsum(i) < k * part_size

----------------------------------------------------------------------------
(* Properties of the threaded enumeration. *)

BagOf(s) == [x \in Range(s) |-> Cardinality({k \in DOMAIN s : s[k] = x})]

RECURSIVE OutputsUpTo(_)
OutputsUpTo(t) == IF t < 0 THEN <<>> ELSE OutputsUpTo(t - 1) \o threads[t].out

\* what the sequential enumeration over all the cells yields
Sequential ==
    IterNearestNeighborsFrom(AllCells(cells_count), 1, neigh_cells, points_indices,
                             cells_count, cells_offset, NoGarbage)

\* C5: once the threads of a returned partition are joined, the pairs they
\* yielded are, as a multiset, the pairs of the sequential enumeration; and while
\* they run the shared arrays are what add_to_cells and neighboring_cells
\* returned.
ThreadsYieldSequential ==
    /\ (pc = "joined") => BagOf(OutputsUpTo(n - 1)) = BagOf(Sequential)
    /\ (pc \in {"running", "joined"}) =>
          \E r \in {AddToCellsResult(points, cell_size, 0)} :
              /\ points_indices = r.points_indices
              /\ cells_count = r.cells_count
              /\ cells_offset = r.cells_offset
              /\ grid_shape = r.grid_shape
              /\ neigh_cells = NeighboringCellsResult(r.grid_shape, distance)

\* two threads have each yielded pairs
ThreadsYieldSequentialWitness ==
    /\ pc = "joined"
    /\ \E t, u \in DOMAIN threads :
          t # u /\ threads[t].out # <<>> /\ threads[u].out # <<>>

----------------------------------------------------------------------------
(* Properties of the preconditions. *)

Raised == outcome = "AssertionError" /\ pc = "done"

\* C9: a call that breaks a precondition raises at entry and produces nothing:
\* add_to_cells with cell_size <= 0 or no rows, neighboring_cells with
\* distance < 1, partition_cells with n <= 0.
PreconditionsFailFast ==
    /\ (pc # "start" /\ (cell_size <= 0 \/ NumPoints = 0)) =>
          (Raised /\ grid_shape = EmptyArray /\ cells_count = EmptyArray)
    /\ (pc \notin {"start", "grid"} /\ cell_size > 0 /\ NumPoints > 0 /\ distance < 1) =>
          (Raised /\ neigh_cells = <<>>)
    /\ (pc \notin {"start", "grid", "neigh"} /\ cell_size > 0 /\ NumPoints > 0
            /\ distance >= 1 /\ n <= 0) =>
          (Raised /\ splits = EmptyArray)

====
